---- MODULE Spec2Model ----
(***************************************************************************)
(* Model of the TK700 control dashboard: the server's power state machine  *)
(* (PowerStateData, updateFromProjector, initiateTransition, the holder    *)
(* made by makePowerStateManager), the two HTTP handlers that mutate it,   *)
(* and the browser-side power poller (power$).                             *)
(*                                                                         *)
(* A value of type `T | null` is modelled as a sequence of length at most  *)
(* one: None is <<>>, Some(x) is <<x>>.  Times are milliseconds, as        *)
(* returned by Date.now().                                                 *)
(***************************************************************************)
EXTENDS Integers, Sequences, FiniteSets, TLC

None == <<>>
Some(x) == <<x>>
IsNone(o) == o = <<>>
Unwrap(o) == o[1]

(***************************************************************************)
(* Bounds of the model.                                                    *)
(***************************************************************************)
\* Date.now() when the process starts (milliseconds, positive).
StartNow == 1000
\* The clock is observed every Quantum milliseconds.
Quantum == 500
\* The clock advances at most MaxTicks times.
MaxTicks == 250
\* HTTP handlers that can be in progress at once.
MaxRequests == 2
\* With HTTP handlers in progress the clock is observed every HttpQuantum
\* milliseconds, at most MaxHttpTicks times.
HttpQuantum == 5000
MaxHttpTicks == 25
\* Subscribers of the power poller.
MaxSubscribers == 2
\* The browser's clock is observed StepsPerPoll times per poll interval, at
\* most MaxPollSteps times.
StepsPerPoll == 2
MaxPollSteps == 5

(***************************************************************************)
(* Program constants.                                                      *)
(***************************************************************************)
WARMING_UP_TIME_SECONDS == 30
COOLING_DOWN_TIME_SECONDS == 90
MsPerSecond == 1000
POLL_INTERVAL == 2000

OFF == "OFF"
WARMING_UP == "WARMING_UP"
ON == "ON"
COOLING_DOWN == "COOLING_DOWN"
UNKNOWN == "UNKNOWN"
PowerState == {OFF, WARMING_UP, ON, COOLING_DOWN, UNKNOWN}

\* boolean | null
Readings == {None, Some(TRUE), Some(FALSE)}

VARIABLES
    state,      \* makePowerStateManager: `let state` (a PowerStateData)
    now,        \* Date.now()
    call,       \* the last step taken: operation and argument (history)
    prev,       \* `state` as it was before the last step (history)
    reqs,       \* the HTTP handlers in progress: where each is suspended
    response,   \* the HTTP response sent by the last step, if any
    clock,      \* the browser's scheduler time (ms since the page loaded)
    power,      \* power$: the interval timer, the switchMap and the replay buffer
    fetches,    \* getPowerState() promises not yet settled (fetch ids)
    subs,       \* subscribers of power$: attached, and the last value received
    event,      \* the last step of the poller (history)
    pubLog,     \* the values power$ has emitted, oldest first (history)
    signal,     \* isProjectorOn$: connected, and its replay buffer
    cond,       \* the conditional pollers: timer, switchMaps, replay buffer
    condFetches, \* per conditional poller: fetch promises not yet settled
    condSubs,   \* per conditional poller: its subscribers
    was         \* power, signal and cond before the last poller step (history)

coreVars == <<state, now, call, prev>>
httpVars == <<reqs, response>>
condVars == <<signal, cond, condFetches, condSubs>>
pollVars == <<clock, power, fetches, subs, event, pubLog,
              signal, cond, condFetches, condSubs, was>>
vars == <<state, now, call, prev, reqs, response,
          clock, power, fetches, subs, event, pubLog,
          signal, cond, condFetches, condSubs, was>>

initialState ==
    [powerOn |-> None, state |-> UNKNOWN, transitionStartTime |-> None]

(***************************************************************************)
(* calculateTimeSinceTransition: (Date.now() - startTime) / 1000, or       *)
(* Infinity when startTime is falsy (null or 0).  The result is kept in    *)
(* milliseconds; comparisons scale the seconds constant instead.           *)
(***************************************************************************)
calculateTimeSinceTransition(startTime, dateNow) ==
    IF ~IsNone(startTime) /\ Unwrap(startTime) # 0
    THEN [inf |-> FALSE, ms |-> dateNow - Unwrap(startTime)]
    ELSE [inf |-> TRUE, ms |-> 0]

\* timeSinceTransition < seconds
LessThanSeconds(t, seconds) == ~t.inf /\ t.ms < seconds * MsPerSecond

\* inferPowerState that never holds a transitional state.
inferPowerState_noHold(current, powerOn, dateNow) ==
    IF powerOn THEN ON ELSE OFF

\* inferPowerState with `<=` for `<` in the warming-up test.
inferPowerState_warmLte(current, powerOn, dateNow) ==
    LET timeSinceTransition ==
            calculateTimeSinceTransition(current.transitionStartTime, dateNow)
    IN  IF current.state = WARMING_UP
           /\ LessThanSeconds(timeSinceTransition, WARMING_UP_TIME_SECONDS)
        THEN WARMING_UP
        ELSE IF current.state = WARMING_UP /\ ~timeSinceTransition.inf
                /\ timeSinceTransition.ms = WARMING_UP_TIME_SECONDS * MsPerSecond
        THEN WARMING_UP
        ELSE IF current.state = COOLING_DOWN
                /\ LessThanSeconds(timeSinceTransition, COOLING_DOWN_TIME_SECONDS)
        THEN COOLING_DOWN
        ELSE IF powerOn THEN ON ELSE OFF

\* inferPowerState with the warming-up duration used for cooling down too.
inferPowerState_coolShort(current, powerOn, dateNow) ==
    LET timeSinceTransition ==
            calculateTimeSinceTransition(current.transitionStartTime, dateNow)
    IN  IF current.state = WARMING_UP
           /\ LessThanSeconds(timeSinceTransition, WARMING_UP_TIME_SECONDS)
        THEN WARMING_UP
        ELSE IF current.state = COOLING_DOWN
                /\ LessThanSeconds(timeSinceTransition, WARMING_UP_TIME_SECONDS)
        THEN COOLING_DOWN
        ELSE IF powerOn THEN ON ELSE OFF

inferPowerState(current, powerOn, dateNow) ==
    LET timeSinceTransition ==
            calculateTimeSinceTransition(current.transitionStartTime, dateNow)
    IN  IF current.state = WARMING_UP
           /\ LessThanSeconds(timeSinceTransition, WARMING_UP_TIME_SECONDS)
        THEN WARMING_UP
        ELSE IF current.state = COOLING_DOWN
                /\ LessThanSeconds(timeSinceTransition, COOLING_DOWN_TIME_SECONDS)
        THEN COOLING_DOWN
        ELSE IF powerOn THEN ON ELSE OFF

\* shouldResetTransition that forgets the OFF case.
shouldResetTransition_onOnly(currentState, newState) ==
    newState # currentState /\ newState = ON

shouldResetTransition(currentState, newState) ==
    newState # currentState /\ (newState = ON \/ newState = OFF)

\* updateFromProjector that falls back to the initial snapshot on a null reading.
updateFromProjector_nullResets(current, powerOn, dateNow) ==
    IF IsNone(powerOn)
    THEN [powerOn |-> None, state |-> UNKNOWN, transitionStartTime |-> None]
    ELSE LET on == Unwrap(powerOn)
             newState == inferPowerState(current, on, dateNow)
         IN  [powerOn |-> Some(on),
              state |-> newState,
              transitionStartTime |->
                  IF shouldResetTransition(current.state, newState)
                  THEN None
                  ELSE current.transitionStartTime]

\* updateFromProjector that records the reading only when the state follows it.
updateFromProjector_powerOnWhenResolved(current, powerOn, dateNow) ==
    IF IsNone(powerOn)
    THEN current
    ELSE LET on == Unwrap(powerOn)
             newState == inferPowerState(current, on, dateNow)
         IN  [powerOn |-> IF newState = ON \/ newState = OFF
                          THEN Some(on)
                          ELSE current.powerOn,
              state |-> newState,
              transitionStartTime |->
                  IF shouldResetTransition(current.state, newState)
                  THEN None
                  ELSE current.transitionStartTime]

updateFromProjector(current, powerOn, dateNow) ==
    IF IsNone(powerOn)
    THEN current
    ELSE LET on == Unwrap(powerOn)
             newState == inferPowerState(current, on, dateNow)
         IN  [powerOn |-> Some(on),
              state |-> newState,
              transitionStartTime |->
                  IF shouldResetTransition(current.state, newState)
                  THEN None
                  ELSE current.transitionStartTime]

\* initiateTransition that also honours a request made in mid-transition.
initiateTransition_restarts(current, targetOn, dateNow) ==
    LET canTurnOn == current.state = OFF \/ current.state = COOLING_DOWN
        canTurnOff == current.state = ON \/ current.state = WARMING_UP
    IN  IF targetOn /\ canTurnOn
        THEN [powerOn |-> Some(targetOn), state |-> WARMING_UP,
              transitionStartTime |-> Some(dateNow)]
        ELSE IF ~targetOn /\ canTurnOff
        THEN [powerOn |-> Some(targetOn), state |-> COOLING_DOWN,
              transitionStartTime |-> Some(dateNow)]
        ELSE current

\* initiateTransition that treats UNKNOWN like OFF.
initiateTransition_fromUnknown(current, targetOn, dateNow) ==
    LET canTurnOn == current.state = OFF \/ current.state = UNKNOWN
        canTurnOff == current.state = ON
    IN  IF targetOn /\ canTurnOn
        THEN [powerOn |-> Some(targetOn), state |-> WARMING_UP,
              transitionStartTime |-> Some(dateNow)]
        ELSE IF ~targetOn /\ canTurnOff
        THEN [powerOn |-> Some(targetOn), state |-> COOLING_DOWN,
              transitionStartTime |-> Some(dateNow)]
        ELSE current

initiateTransition(current, targetOn, dateNow) ==
    LET canTurnOn == current.state = OFF
        canTurnOff == current.state = ON
    IN  IF targetOn /\ canTurnOn
        THEN [powerOn |-> Some(targetOn), state |-> WARMING_UP,
              transitionStartTime |-> Some(dateNow)]
        ELSE IF ~targetOn /\ canTurnOff
        THEN [powerOn |-> Some(targetOn), state |-> COOLING_DOWN,
              transitionStartTime |-> Some(dateNow)]
        ELSE current

\* Math.ceil(a / b) for b > 0
CeilDiv(a, b) == -((-a) \div b)
Max(a, b) == IF a >= b THEN a ELSE b

\* calculateRemainingSeconds with Math.floor for Math.ceil.
calculateRemainingSeconds_floor(s, dateNow) ==
    IF IsNone(s.transitionStartTime)
    THEN 0
    ELSE LET timeSinceTransition ==
                 calculateTimeSinceTransition(s.transitionStartTime, dateNow)
             totalTime == IF s.state = WARMING_UP
                          THEN WARMING_UP_TIME_SECONDS
                          ELSE COOLING_DOWN_TIME_SECONDS
         IN  IF timeSinceTransition.inf
             THEN 0
             ELSE Max(0, (totalTime * MsPerSecond - timeSinceTransition.ms)
                             \div MsPerSecond)

calculateRemainingSeconds(s, dateNow) ==
    IF IsNone(s.transitionStartTime)
    THEN 0
    ELSE LET timeSinceTransition ==
                 calculateTimeSinceTransition(s.transitionStartTime, dateNow)
             totalTime == IF s.state = WARMING_UP
                          THEN WARMING_UP_TIME_SECONDS
                          ELSE COOLING_DOWN_TIME_SECONDS
         IN  IF timeSinceTransition.inf
             THEN 0
             ELSE Max(0, CeilDiv(totalTime * MsPerSecond - timeSinceTransition.ms,
                                 MsPerSecond))

enrichWithRemainingSeconds(s, dateNow) ==
    [powerOn |-> s.powerOn, state |-> s.state,
     transitionStartTime |-> s.transitionStartTime,
     remainingSeconds |-> calculateRemainingSeconds(s, dateNow)]

(***************************************************************************)
(* The holder: modifyState(f) is `state = f(state); return state`, where f *)
(* is one of the two closures built by updateFromProjectorStatus and       *)
(* initiateTransitionTo; f is named here by the operation and its argument.*)
(***************************************************************************)
UPDATE == "updateFromProjectorStatus"
INITIATE == "initiateTransitionTo"

\* current => updateFromProjector(current)(powerOn), or
\* current => initiateTransition(current)(targetOn)
Closure(op, arg, current) ==
    IF op = UPDATE
    THEN updateFromProjector(current, arg, now)
    ELSE initiateTransition(current, Unwrap(arg), now)

\* modifyState applied to a snapshot captured when the holder was made.
modifyState_stale(op, arg) ==
    [base |-> initialState, result |-> Closure(op, arg, initialState)]

modifyState(op, arg) ==
    [base |-> state, result |-> Closure(op, arg, state)]

\* The record kept in `call` for a step.
Call(op, arg, route, result, base) ==
    [op |-> op, arg |-> arg, route |-> route, result |-> result, base |-> base]

NoRoute == ""
NoResult == ""

updateFromProjectorStatus(powerOn, route, result) ==
    LET m == modifyState(UPDATE, powerOn)
    IN  /\ state' = m.result
        /\ prev' = state
        /\ call' = Call(UPDATE, powerOn, route, result, m.base)

initiateTransitionTo(targetOn, route) ==
    LET m == modifyState(INITIATE, Some(targetOn))
    IN  /\ state' = m.result
        /\ prev' = state
        /\ call' = Call(INITIATE, Some(targetOn), route, NoResult, m.base)

\* A step that is no call of the holder.
NoMutation(op, route, result) ==
    /\ call' = Call(op, None, route, result, state)
    /\ prev' = state
    /\ UNCHANGED state

(***************************************************************************)
(* HTTP handlers.  A handler runs from one `await` to the next without     *)
(* interruption; at an `await` any other handler may run and time may pass.*)
(***************************************************************************)
Requests == 1..MaxRequests
Idle == [pc |-> "idle", on |-> None]
NoResponse == [route |-> NoRoute, status |-> 0, error |-> None, data |-> None]

GET_POWER_STATE == "GET /api/power-state"
POST_POWER == "POST /api/power"

\* tk700Client.getPowerStatus()(): Either<Error, Option<boolean>>
PowerStatuses ==
    {[tag |-> "Left", value |-> None]} \cup
    {[tag |-> "Right", value |-> r] : r \in Readings}

\* tk700Client.setPower(on)(): Either<Error, ack>
SetPowerResults == {"Left", "Right"}

\* A failed device read taken for "off".
powerOnOfStatus_leftIsOff(powerStatus) ==
    IF powerStatus.tag = "Right" THEN powerStatus.value ELSE Some(FALSE)

\* E.map(O.toNullable), E.getOrElse(() => null)
powerOnOfStatus(powerStatus) ==
    IF powerStatus.tag = "Right" THEN powerStatus.value ELSE None

\* AT.toApiResponse: a failure becomes {error, data: null}, a success
\* {error: null, data}.
toApiResponse(result) ==
    IF result = "Left"
    THEN [error |-> Some("error"), data |-> None]
    ELSE [error |-> None, data |-> Some([ack |-> TRUE])]

\* handleTask: c.json(response, response.error ? 500 : 200)
handleTask(route, result) ==
    LET apiResponse == toApiResponse(result)
    IN  [route |-> route,
         status |-> IF IsNone(apiResponse.error) THEN 200 ELSE 500,
         error |-> apiResponse.error,
         data |-> apiResponse.data]

\* app.get('/api/power-state'): the request arrives, getPowerStatus is issued.
GetPowerStateBegin(h) ==
    /\ reqs[h] = Idle
    /\ reqs' = [reqs EXCEPT ![h] = [pc |-> "get_await_status", on |-> None]]
    /\ NoMutation("request", GET_POWER_STATE, NoResult)
    /\ response' = NoResponse
    /\ UNCHANGED <<now, pollVars>>

\* ... the device read completes: update the holder, answer with getStateInfo().
GetPowerStateResume(h, powerStatus) ==
    /\ reqs[h].pc = "get_await_status"
    /\ updateFromProjectorStatus(powerOnOfStatus(powerStatus),
                                 GET_POWER_STATE, powerStatus.tag)
    /\ response' = [route |-> GET_POWER_STATE, status |-> 200, error |-> None,
                    data |-> Some(enrichWithRemainingSeconds(state', now))]
    /\ reqs' = [reqs EXCEPT ![h] = Idle]
    /\ UNCHANGED <<now, pollVars>>

\* app.post('/api/power'): the request arrives, the body is being read.
PostPowerBegin(h) ==
    /\ reqs[h] = Idle
    /\ reqs' = [reqs EXCEPT ![h] = [pc |-> "post_await_json", on |-> None]]
    /\ NoMutation("request", POST_POWER, NoResult)
    /\ response' = NoResponse
    /\ UNCHANGED <<now, pollVars>>

\* PostPowerBody that answers at once, without setPower, when the request
\* changed nothing.
PostPowerBody_skipsNoOp(h, on) ==
    /\ reqs[h].pc = "post_await_json"
    /\ initiateTransitionTo(on, POST_POWER)
    /\ reqs' = [reqs EXCEPT ![h] =
                   IF state' = state
                   THEN Idle
                   ELSE [pc |-> "post_await_setPower", on |-> Some(on)]]
    /\ response' = NoResponse
    /\ UNCHANGED <<now, pollVars>>

\* ... the body is parsed: initiateTransitionTo(on), then setPower(on) is issued.
PostPowerBody(h, on) ==
    /\ reqs[h].pc = "post_await_json"
    /\ initiateTransitionTo(on, POST_POWER)
    /\ reqs' = [reqs EXCEPT ![h] = [pc |-> "post_await_setPower", on |-> Some(on)]]
    /\ response' = NoResponse
    /\ UNCHANGED <<now, pollVars>>

\* ... setPower completes: answer with its result.
PostPowerDone(h, result) ==
    /\ reqs[h].pc = "post_await_setPower"
    /\ NoMutation("respond", POST_POWER, result)
    /\ response' = handleTask(POST_POWER, result)
    /\ reqs' = [reqs EXCEPT ![h] = Idle]
    /\ UNCHANGED <<now, pollVars>>

\* Time passes while handlers are suspended or no request is being handled.
AdvanceClockHttp ==
    /\ now + HttpQuantum <= StartNow + MaxHttpTicks * HttpQuantum
    /\ now' = now + HttpQuantum
    /\ NoMutation("advance", NoRoute, NoResult)
    /\ response' = NoResponse
    /\ UNCHANGED <<reqs, pollVars>>

\* Time passes between calls.
AdvanceClock ==
    /\ now + Quantum <= StartNow + MaxTicks * Quantum
    /\ now' = now + Quantum
    /\ NoMutation("advance", NoRoute, NoResult)
    /\ UNCHANGED <<httpVars, pollVars>>

(***************************************************************************)
(* The power poller (browser side):                                        *)
(*   power$ = interval(POLL_INTERVAL).pipe(startWith(0),                   *)
(*              switchMap(() => fetchPowerState()()), map(...),            *)
(*              shareReplay(1))                                            *)
(* A published value is `PowerStateData | null`: None is null.             *)
(***************************************************************************)
Subscribers == 1..MaxSubscribers
PollQuantum == POLL_INTERVAL \div StepsPerPoll

\* Snapshots the server may return from /api/power-state (the fields the
\* poller reads).
PolledSnapshots ==
    {[powerOn |-> Some(TRUE), state |-> ON],
     [powerOn |-> Some(FALSE), state |-> OFF],
     [powerOn |-> Some(TRUE), state |-> WARMING_UP],
     [powerOn |-> Some(FALSE), state |-> COOLING_DOWN],
     [powerOn |-> None, state |-> UNKNOWN]}

\* How a getPowerState() promise settles.
Settlements ==
    {[how |-> "reject"]} \cup
    {[how |-> "resolve", data |-> d] : d \in PolledSnapshots}

\* fetchPowerState without TE.tryCatch: a rejection escapes.
fetchPowerState_noCatch(settlement) ==
    IF settlement.how = "resolve"
    THEN [tag |-> "Right", right |-> settlement.data]
    ELSE [tag |-> "Rejected"]

\* fetchPowerState: TE.tryCatch(() => getPowerState(), ...)
fetchPowerState(settlement) ==
    IF settlement.how = "resolve"
    THEN [tag |-> "Right", right |-> settlement.data]
    ELSE [tag |-> "Left"]

\* map(either => (E.isRight(either) ? either.right : null))
mapEither(either) ==
    IF either.tag = "Right" THEN Some(either.right) ELSE None

Detached == [attached |-> FALSE, last |-> None]
PollEvent(kind, id, tag) ==
    [kind |-> kind, id |-> id, tag |-> tag, poller |-> "", sig |-> None]

\* Before the first subscriber: nothing is running.
powerInit ==
    [connected |-> FALSE,   \* shareReplay has subscribed to its source
     halted |-> FALSE,      \* the source ended with an error
     t0 |-> 0,              \* when the source was subscribed
     issued |-> 0,          \* fetches started so far (= ticks, tick 0 included)
     nextTick |-> 0,        \* when the interval timer is next due
     active |-> 0,          \* the fetch switchMap is subscribed to (0: none)
     cache |-> None]        \* shareReplay(1)'s buffer: None, or Some(value)

TimerRunning == power.connected /\ ~power.halted

\* switchMap's projection: start a fetch and switch to it.
StartFetch(p) ==
    [p EXCEPT !.issued = p.issued + 1, !.active = p.issued + 1]

Current_merge(p, id) == TRUE

\* switchMap is subscribed to the latest fetch only: the reply to any other
\* one has nowhere to go.
Current(p, id) == id = p.active

\* power$ is subscribed to its source: startWith(0) emits at once (tick 0, a
\* fetch is started) and the interval timer is armed.
ConnectPower(p) ==
    [StartFetch(p) EXCEPT !.connected = TRUE, !.t0 = clock,
                          !.nextTick = clock + POLL_INTERVAL]

(***************************************************************************)
(* The derived signal and the conditional pollers:                         *)
(*   isProjectorOn$ = power$.pipe(map(...), distinctUntilChanged(),        *)
(*                                shareReplay(1))                          *)
(*   createConditionalPoller$(condition$, task) = condition$.pipe(         *)
(*     switchMap(isOn => isOn ? interval(POLL_INTERVAL).pipe(startWith(0), *)
(*                 switchMap(() => task().then(E.getOrElse(() => null))))  *)
(*               : of(null)),                                              *)
(*     shareReplay(1))                                                     *)
(* temperature$ stands for the four pollers built with createPollingTask   *)
(* (temperature$, fanSpeed$, volume$, pictureMode$).                       *)
(***************************************************************************)
TEMPERATURE == "temperature$"
PICTURE_SETTINGS == "pictureSettings$"
CondPollers == {TEMPERATURE, PICTURE_SETTINGS}

isProjectorOn_nullIsOn(value) ==
    \/ IsNone(value)
    \/ /\ Unwrap(value).powerOn = Some(TRUE)
       /\ Unwrap(value).state = ON

\* map(state => state !== null && state.powerOn === true && state.state === 'ON')
isProjectorOn(value) ==
    /\ ~IsNone(value)
    /\ Unwrap(value).powerOn = Some(TRUE)
    /\ Unwrap(value).state = ON

distinctUntilChanged_always(last, b) == TRUE

\* distinctUntilChanged(): does a value pass, given the last one passed on?
distinctUntilChanged(last, b) == last # Some(b)

signalInit == [connected |-> FALSE, cache |-> None]

condInit ==
    [connected |-> FALSE,   \* shareReplay has subscribed to condition$.pipe(...)
     halted |-> FALSE,      \* the stream ended with an error
     running |-> FALSE,     \* the outer switchMap is on the interval branch
     t0 |-> 0,              \* when that interval was subscribed
     base |-> 0,            \* fetches started before that
     issued |-> 0,          \* fetches started so far
     nextTick |-> 0,        \* when the interval timer is next due
     active |-> 0,          \* the fetch the inner switchMap is subscribed to
     cache |-> None]        \* shareReplay(1)'s buffer: None, or Some(value)

\* What a device read resolves with.
TemperatureReading == 40
PictureReading ==
    [brightness |-> Some(50), contrast |-> Some(50), sharpness |-> Some(10)]

\* How the promise of a poller's fetch function settles.
CondSettlements(p) ==
    {[how |-> "reject"],
     [how |-> "resolve",
      data |-> IF p = TEMPERATURE THEN TemperatureReading ELSE PictureReading]}

createPollingTask_noRecover(settlement) ==
    IF settlement.how = "resolve"
    THEN [tag |-> "Right", right |-> Some(settlement.data)]
    ELSE [tag |-> "Rejected"]

\* createPollingTask(fetchFn, errorMsg): tryCatch, then orElse(() => TE.of(null))
createPollingTask(settlement) ==
    IF settlement.how = "resolve"
    THEN [tag |-> "Right", right |-> Some(settlement.data)]
    ELSE [tag |-> "Right", right |-> None]

\* fetchPictureSettings: tryCatch of Promise.all, map to the triple, orElse to
\* the triple of nulls.
fetchPictureSettings(settlement) ==
    IF settlement.how = "resolve"
    THEN [tag |-> "Right", right |-> Some(settlement.data)]
    ELSE [tag |-> "Right",
          right |-> Some([brightness |-> None, contrast |-> None,
                          sharpness |-> None])]

\* The task a conditional poller was created with.
task(p, settlement) ==
    IF p = TEMPERATURE
    THEN createPollingTask(settlement)
    ELSE fetchPictureSettings(settlement)

\* E.getOrElse((): T | null => null)
getOrElseNull(either) ==
    IF either.tag = "Right" THEN either.right ELSE None

SwitchOn_noStartWith(c) ==
    [c EXCEPT !.running = TRUE, !.t0 = clock, !.base = c.issued,
              !.nextTick = clock + POLL_INTERVAL]

\* isOn ? interval(POLL_INTERVAL).pipe(startWith(0), switchMap(...)): the
\* timer is armed and the first fetch starts at once.
SwitchOn(c) ==
    [c EXCEPT !.running = TRUE, !.t0 = clock, !.base = c.issued,
              !.issued = c.issued + 1, !.active = c.issued + 1,
              !.nextTick = clock + POLL_INTERVAL]

SwitchOff_frozen(c) ==
    [c EXCEPT !.running = FALSE, !.active = 0]

\* : of(null): the interval and the fetch are unsubscribed, null is emitted.
SwitchOff(c) ==
    [c EXCEPT !.running = FALSE, !.active = 0, !.cache = Some(None)]

\* The outer switchMap of a conditional poller receives isOn.
Deliver(c, isOn) == IF isOn THEN SwitchOn(c) ELSE SwitchOff(c)

\* A poller takes values of condition$ while it is subscribed and alive.
Listening(c) == c.connected /\ ~c.halted

\* isProjectorOn$ emits b: every listening conditional poller switches.
CondAfterSignal(cs, b) ==
    [p \in CondPollers |-> IF Listening(cs[p]) THEN Deliver(cs[p], b) ELSE cs[p]]

\* The effect of power$ emitting `value` on the signal and, through it, on
\* the conditional pollers: [signal, cond, sig] with sig the boolean emitted
\* by isProjectorOn$, if any.
AfterPowerValue(sg, cs, value) ==
    LET b == isProjectorOn(value)
    IN  IF sg.connected /\ distinctUntilChanged(sg.cache, b)
        THEN [signal |-> [sg EXCEPT !.cache = Some(b)],
              cond |-> CondAfterSignal(cs, b),
              sig |-> Some(b)]
        ELSE [signal |-> sg, cond |-> cs, sig |-> None]

\* The fetches a step started for a poller are added to its pending ones.
WithNewFetches(fs, before, after) ==
    [p \in CondPollers |-> fs[p] \cup ((before[p].issued + 1)..after[p].issued)]

\* Every attached subscriber of a poller that emitted receives the value.
WithEmissions(cs, before, after, emitted) ==
    [p \in CondPollers |->
        [s \in Subscribers |->
            IF cs[p][s].attached /\ p \in emitted
            THEN [cs[p][s] EXCEPT !.last = after[p].cache]
            ELSE cs[p][s]]]

\* The pollers that emit null because the signal emitted false.
SwitchedOff(before, sig) ==
    IF sig = Some(FALSE) THEN {p \in CondPollers : Listening(before[p])} ELSE {}

Was == [power |-> power, signal |-> signal, cond |-> cond]

\* A consumer subscribes to power$.  The first subscription connects
\* shareReplay to its source: startWith(0) emits at once (tick 0, a fetch is
\* started) and the interval timer is armed.  A later one is replayed the
\* buffered value, if any.
Subscribe(s) ==
    /\ ~subs[s].attached
    /\ ~power.halted
    /\ IF ~power.connected
       THEN /\ power' = ConnectPower(power)
            /\ fetches' = fetches \cup {1}
            /\ event' = PollEvent("connect", 1, "")
       ELSE /\ UNCHANGED <<power, fetches>>
            /\ event' = [PollEvent("subscribe", 0, "") EXCEPT !.id = s]
    /\ subs' = [subs EXCEPT ![s] = [attached |-> TRUE, last |-> power.cache]]
    /\ was' = Was
    /\ UNCHANGED <<clock, pubLog, condVars, coreVars, httpVars>>

\* The interval timer fires: switchMap drops the fetch it was waiting for and
\* starts a new one.
IntervalTick ==
    /\ TimerRunning
    /\ clock >= power.nextTick
    /\ power' = [StartFetch(power) EXCEPT !.nextTick = power.nextTick + POLL_INTERVAL]
    /\ fetches' = fetches \cup {power.issued + 1}
    /\ event' = PollEvent("tick", power.issued + 1, "")
    /\ was' = Was
    /\ UNCHANGED <<clock, subs, pubLog, condVars, coreVars, httpVars>>

\* A getPowerState() promise settles.  Only the fetch switchMap is still
\* subscribed to is passed on: its value is mapped, buffered and sent to
\* every subscriber, isProjectorOn$ among them.  A rejection that reaches
\* switchMap ends the stream.
FetchSettle(id, settlement) ==
    /\ id \in fetches
    /\ fetches' = fetches \ {id}
    /\ LET either == fetchPowerState(settlement)
       IN  IF ~Current(power, id) \/ power.halted
           THEN /\ event' = PollEvent("discard", id, either.tag)
                /\ UNCHANGED <<power, subs, pubLog, condVars>>
           ELSE IF either.tag = "Rejected"
           THEN /\ power' = [power EXCEPT !.halted = TRUE, !.active = 0]
                /\ event' = PollEvent("error", id, either.tag)
                /\ UNCHANGED <<subs, pubLog, condVars>>
           ELSE LET value == mapEither(either)
                    after == AfterPowerValue(signal, cond, value)
                IN  /\ power' = [power EXCEPT !.active = 0, !.cache = Some(value)]
                    /\ subs' = [s \in Subscribers |->
                                   IF subs[s].attached
                                   THEN [subs[s] EXCEPT !.last = Some(value)]
                                   ELSE subs[s]]
                    /\ pubLog' = Append(pubLog, value)
                    /\ signal' = after.signal
                    /\ cond' = after.cond
                    /\ condFetches' = WithNewFetches(condFetches, cond, after.cond)
                    /\ condSubs' = WithEmissions(condSubs, cond, after.cond,
                                                 SwitchedOff(cond, after.sig))
                    /\ event' = [PollEvent("publish", id, either.tag)
                                    EXCEPT !.sig = after.sig]
    /\ was' = Was
    /\ UNCHANGED <<clock, coreVars, httpVars>>

LateSubscribe_resubscribes(c) ==
    IF c.running THEN StartFetch(c) ELSE c

\* shareReplay(1) is already subscribed to its source: one more subscriber
\* is added to its subject and the source is left as it is.
LateSubscribe(c) == c

\* The conditional pollers share nothing but isProjectorOn$, which they only
\* read, so a behaviour follows one of them: once p has subscribers the others
\* get none.
OnePollerObserved(p) == \A q \in CondPollers \ {p} : ~cond[q].connected

\* A consumer subscribes to a conditional poller.  The first subscription
\* connects the poller to isProjectorOn$, which connects isProjectorOn$ to
\* power$ if nothing had, which connects power$ to its source if nothing
\* had; a buffered value is replayed down that chain at once.  A later
\* subscription is replayed the poller's buffered value, if any.
CondSubscribe(p, s) ==
    /\ ~condSubs[p][s].attached
    /\ OnePollerObserved(p)
    /\ ~cond[p].halted
    /\ ~power.halted
    /\ LET joined == [cond EXCEPT ![p].connected = TRUE]
           \* what the poller receives from isProjectorOn$ on subscribing
           fromPower == IF ~signal.connected /\ power.connected
                           /\ ~IsNone(power.cache)
                        THEN Some(isProjectorOn(Unwrap(power.cache)))
                        ELSE None
           replayed == IF signal.connected THEN signal.cache ELSE fromPower
           after == IF cond[p].connected
                    THEN [cond EXCEPT ![p] = LateSubscribe(cond[p])]
                    ELSE IF IsNone(replayed)
                    THEN joined
                    ELSE [joined EXCEPT ![p] = Deliver(joined[p], Unwrap(replayed))]
           emitted == IF ~cond[p].connected /\ replayed = Some(FALSE)
                      THEN {p} ELSE {}
       IN  /\ cond' = after
           /\ signal' = IF cond[p].connected THEN signal
                        ELSE [connected |-> TRUE, cache |-> replayed]
           /\ power' = IF cond[p].connected \/ signal.connected \/ power.connected
                       THEN power
                       ELSE ConnectPower(power)
           /\ fetches' = fetches \cup (IF power'.issued > power.issued
                                       THEN {power'.issued} ELSE {})
           /\ condFetches' = WithNewFetches(condFetches, cond, after)
           /\ condSubs' = [WithEmissions(condSubs, cond, after, emitted)
                              EXCEPT ![p][s] = [attached |-> TRUE,
                                                last |-> after[p].cache]]
           /\ event' = [PollEvent(IF cond[p].connected THEN "cond_subscribe"
                                  ELSE "cond_connect", s, "")
                           EXCEPT !.poller = p,
                                  !.sig = IF signal.connected THEN None ELSE fromPower]
    /\ was' = Was
    /\ UNCHANGED <<clock, subs, pubLog, coreVars, httpVars>>

\* The interval timer of a conditional poller fires: the inner switchMap
\* drops the fetch it was waiting for and starts a new one.
CondTick(p) ==
    /\ Listening(cond[p])
    /\ cond[p].running
    /\ clock >= cond[p].nextTick
    /\ cond' = [cond EXCEPT ![p] = [StartFetch(cond[p]) EXCEPT
                                       !.nextTick = cond[p].nextTick + POLL_INTERVAL]]
    /\ condFetches' = WithNewFetches(condFetches, cond, cond')
    /\ event' = [PollEvent("cond_tick", cond[p].issued + 1, "") EXCEPT !.poller = p]
    /\ was' = Was
    /\ UNCHANGED <<clock, power, fetches, subs, pubLog, signal, condSubs,
                   coreVars, httpVars>>

\* The promise of a conditional poller's fetch settles.  Only the fetch the
\* inner switchMap is still subscribed to is passed on: its value (null for a
\* Left) is buffered and sent to every subscriber.
CondSettle(p, id, settlement) ==
    /\ id \in condFetches[p]
    /\ condFetches' = [condFetches EXCEPT ![p] = condFetches[p] \ {id}]
    /\ LET either == task(p, settlement)
       IN  IF ~Current(cond[p], id) \/ ~cond[p].running \/ ~Listening(cond[p])
           THEN /\ event' = [PollEvent("cond_discard", id, settlement.how)
                                EXCEPT !.poller = p]
                /\ UNCHANGED <<cond, condSubs>>
           ELSE IF either.tag = "Rejected"
           THEN /\ cond' = [cond EXCEPT ![p].halted = TRUE, ![p].running = FALSE,
                                        ![p].active = 0]
                /\ event' = [PollEvent("cond_error", id, settlement.how)
                                EXCEPT !.poller = p]
                /\ UNCHANGED condSubs
           ELSE /\ cond' = [cond EXCEPT ![p].active = 0,
                                        ![p].cache = Some(getOrElseNull(either))]
                /\ condSubs' = WithEmissions(condSubs, cond, cond', {p})
                /\ event' = [PollEvent("cond_publish", id, settlement.how)
                                EXCEPT !.poller = p]
    /\ was' = Was
    /\ UNCHANGED <<clock, power, fetches, subs, pubLog, signal, coreVars, httpVars>>

\* Time passes in the browser; a timer that is due fires before more passes.
AdvancePollClock ==
    /\ clock + PollQuantum <= MaxPollSteps * PollQuantum
    /\ TimerRunning => clock < power.nextTick
    /\ \A p \in CondPollers :
           (Listening(cond[p]) /\ cond[p].running) => clock < cond[p].nextTick
    /\ clock' = clock + PollQuantum
    /\ event' = PollEvent("advance", 0, "")
    /\ was' = Was
    /\ UNCHANGED <<power, fetches, subs, pubLog, condVars, coreVars, httpVars>>

Init ==
    /\ state = initialState
    /\ now = StartNow
    /\ call = Call("init", None, NoRoute, NoResult, initialState)
    /\ prev = initialState
    /\ reqs = [h \in Requests |-> Idle]
    /\ response = NoResponse
    /\ clock = 0
    /\ power = powerInit
    /\ fetches = {}
    /\ subs = [s \in Subscribers |-> Detached]
    /\ event = PollEvent("init", 0, "")
    /\ pubLog = <<>>
    /\ signal = signalInit
    /\ cond = [p \in CondPollers |-> condInit]
    /\ condFetches = [p \in CondPollers |-> {}]
    /\ condSubs = [p \in CondPollers |-> [s \in Subscribers |-> Detached]]
    /\ was = [power |-> powerInit, signal |-> signalInit,
              cond |-> [p \in CondPollers |-> condInit]]

\* observeReading / requestTransition called directly, at the current time.
ObserveReading ==
    /\ \E r \in Readings : updateFromProjectorStatus(r, NoRoute, NoResult)
    /\ UNCHANGED <<now, httpVars, pollVars>>

RequestTransition ==
    /\ \E t \in BOOLEAN : initiateTransitionTo(t, NoRoute)
    /\ UNCHANGED <<now, httpVars, pollVars>>

Next ==
    \/ ObserveReading
    \/ RequestTransition
    \/ AdvanceClock

Spec == Init /\ [][Next]_vars

GetPowerState ==
    \E h \in Requests :
        \/ GetPowerStateBegin(h)
        \/ \E powerStatus \in PowerStatuses : GetPowerStateResume(h, powerStatus)

PostPower ==
    \E h \in Requests :
        \/ PostPowerBegin(h)
        \/ \E on \in BOOLEAN : PostPowerBody(h, on)
        \/ \E result \in SetPowerResults : PostPowerDone(h, result)

HttpNext ==
    \/ GetPowerState
    \/ PostPower
    \/ AdvanceClockHttp

HttpSpec == Init /\ [][HttpNext]_vars

PollSubscribe == \E s \in Subscribers : Subscribe(s)

PollSettle ==
    \E id \in fetches : \E settlement \in Settlements : FetchSettle(id, settlement)

PollNext ==
    \/ PollSubscribe
    \/ IntervalTick
    \/ PollSettle
    \/ AdvancePollClock

PollSpec == Init /\ [][PollNext]_vars

CondPollerSubscribe ==
    \E p \in CondPollers : \E s \in Subscribers : CondSubscribe(p, s)

CondPollerTick == \E p \in CondPollers : CondTick(p)

CondPollerSettle ==
    \E p \in CondPollers : \E id \in condFetches[p] :
        \E settlement \in CondSettlements(p) : CondSettle(p, id, settlement)

DashNext ==
    \/ PollSubscribe
    \/ IntervalTick
    \/ PollSettle
    \/ CondPollerSubscribe
    \/ CondPollerTick
    \/ CondPollerSettle
    \/ AdvancePollClock

DashSpec == Init /\ [][DashNext]_vars

(***************************************************************************)
(* Properties of the power state machine (specification Spec).             *)
(***************************************************************************)
Transitional(s) == s.state = WARMING_UP \/ s.state = COOLING_DOWN
IsObserve == call.op = UPDATE
IsRequest == call.op = INITIATE
\* Milliseconds between the start of the transition of snapshot s and time t.
ElapsedMs(s, t) == t - Unwrap(s.transitionStartTime)

\* C1: in every reachable snapshot, transitionStartTime is set exactly when
\* the state is WARMING_UP or COOLING_DOWN.
C1_StartTimeIffTransitional ==
    ~IsNone(state.transitionStartTime) <=> Transitional(state)

\* A reading was observed in mid-transition and the phase was held.
C1_Witness ==
    /\ IsObserve
    /\ prev.state = COOLING_DOWN
    /\ state.state = COOLING_DOWN
    /\ state.powerOn = Some(TRUE)
    /\ ~IsNone(state.transitionStartTime)

\* C2: a request to turn on changes nothing unless the state is OFF, a request
\* to turn off changes nothing unless the state is ON; an honoured request
\* yields the target, the transitional state and the current time.
C2_RequestHonouredOnlyFromStable ==
    IsRequest =>
        LET targetOn == Unwrap(call.arg)
        IN  /\ (targetOn /\ prev.state # OFF) => state = prev
            /\ (~targetOn /\ prev.state # ON) => state = prev
            /\ (targetOn /\ prev.state = OFF) =>
                   state = [powerOn |-> Some(TRUE), state |-> WARMING_UP,
                            transitionStartTime |-> Some(now)]
            /\ (~targetOn /\ prev.state = ON) =>
                   state = [powerOn |-> Some(FALSE), state |-> COOLING_DOWN,
                            transitionStartTime |-> Some(now)]

\* A request made some time into a warm-up left the start time alone.
C2_Witness ==
    /\ IsRequest
    /\ prev.state = WARMING_UP
    /\ state.state = WARMING_UP
    /\ ElapsedMs(state, now) > 0

\* C3: a non-null reading observed less than 30 s into WARMING_UP keeps the
\* state and the start time; observed at 30 s or later it resolves to ON
\* (reading true) or OFF (reading false), clears the start time and leaves
\* remainingSeconds at 0.
C3_WarmingUpHeldThenResolved ==
    (IsObserve /\ ~IsNone(call.arg) /\ prev.state = WARMING_UP) =>
        IF ElapsedMs(prev, now) < 30 * 1000
        THEN /\ state.state = WARMING_UP
             /\ state.transitionStartTime = prev.transitionStartTime
        ELSE /\ state.state = (IF Unwrap(call.arg) THEN ON ELSE OFF)
             /\ IsNone(state.transitionStartTime)
             /\ calculateRemainingSeconds(state, now) = 0

\* A reading true observed exactly 30 s into the warm-up resolved it to ON.
C3_Witness ==
    /\ IsObserve
    /\ call.arg = Some(TRUE)
    /\ prev.state = WARMING_UP
    /\ ElapsedMs(prev, now) = 30 * 1000
    /\ state.state = ON

\* C4: a non-null reading observed less than 90 s into COOLING_DOWN keeps the
\* state and the start time; reading false at 90 s or later yields OFF with
\* the start time cleared.
C4_CoolingDownHeldThenResolved ==
    (IsObserve /\ ~IsNone(call.arg) /\ prev.state = COOLING_DOWN) =>
        IF ElapsedMs(prev, now) < 90 * 1000
        THEN /\ state.state = COOLING_DOWN
             /\ state.transitionStartTime = prev.transitionStartTime
        ELSE ~Unwrap(call.arg) =>
                 /\ state.state = OFF
                 /\ IsNone(state.transitionStartTime)

\* A reading false observed 90 s or more into the cool-down resolved it to OFF.
C4_Witness ==
    /\ IsObserve
    /\ call.arg = Some(FALSE)
    /\ prev.state = COOLING_DOWN
    /\ ElapsedMs(prev, now) >= 90 * 1000
    /\ state.state = OFF

\* r is max(0, ceil(x / 1000)): the least non-negative integer with r * 1000 >= x.
IsCeilSecondsClamped(r, x) ==
    /\ r >= 0
    /\ r * 1000 >= x
    /\ r > 0 => (r - 1) * 1000 < x

\* C5: remainingSeconds is 0 without a start time and max(0, ceil(duration -
\* elapsed)) with one (30 s warming up, 90 s cooling down): an integer in
\* 0..duration, 1 at 29 s into WARMING_UP, 0 in ON, OFF and UNKNOWN, and never
\* larger after the clock advanced.
C5_RemainingSeconds ==
    LET r == calculateRemainingSeconds(state, now)
    IN  /\ IsNone(state.transitionStartTime) => r = 0
        /\ (~IsNone(state.transitionStartTime) /\ state.state = WARMING_UP) =>
               /\ IsCeilSecondsClamped(r, 30 * 1000 - ElapsedMs(state, now))
               /\ r \in 0..30
        /\ (~IsNone(state.transitionStartTime) /\ state.state = COOLING_DOWN) =>
               /\ IsCeilSecondsClamped(r, 90 * 1000 - ElapsedMs(state, now))
               /\ r \in 0..90
        /\ (state.state = WARMING_UP /\ ~IsNone(state.transitionStartTime)
               /\ ElapsedMs(state, now) = 29 * 1000) => r = 1
        /\ state.state \in {ON, OFF, UNKNOWN} => r = 0
        /\ call.op = "advance" =>
               r <= calculateRemainingSeconds(prev, now - Quantum)

\* Half a second before the end of a warm-up one second remains.
C5_Witness ==
    /\ state.state = WARMING_UP
    /\ call.op = "advance"
    /\ ElapsedMs(state, now) > 29 * 1000
    /\ ElapsedMs(state, now) < 30 * 1000
    /\ calculateRemainingSeconds(state, now) = 1

Observed(s) == s.state # UNKNOWN /\ ~IsNone(s.powerOn)

\* C7: a non-null reading takes the snapshot out of UNKNOWN and sets powerOn,
\* and no later step of either kind (a null reading included) takes it back.
C7_UnknownOnlyBeforeFirstReading ==
    /\ (IsObserve /\ ~IsNone(call.arg)) => Observed(state)
    /\ Observed(prev) => Observed(state)
    /\ ~Observed(state) => state = initialState

\* A null reading arrived after the snapshot had left UNKNOWN.
C7_Witness ==
    /\ IsObserve
    /\ IsNone(call.arg)
    /\ Observed(prev)
    /\ Observed(state)

\* C16: a non-null reading is always stored in powerOn, also when the state
\* is held in mid-transition, so powerOn may disagree with a transitional
\* state; state ON always has powerOn true and state OFF powerOn false.
C16_PowerOnFollowsReading ==
    /\ (IsObserve /\ ~IsNone(call.arg)) => state.powerOn = call.arg
    /\ state.state = ON => state.powerOn = Some(TRUE)
    /\ state.state = OFF => state.powerOn = Some(FALSE)

\* A reading false observed during a warm-up: WARMING_UP with powerOn false.
C16_Witness ==
    /\ IsObserve
    /\ call.arg = Some(FALSE)
    /\ prev = [powerOn |-> Some(TRUE), state |-> WARMING_UP,
               transitionStartTime |-> prev.transitionStartTime]
    /\ state.state = WARMING_UP
    /\ state.powerOn = Some(FALSE)

\* C17: the state changes only along UNKNOWN->ON/OFF, OFF->ON, ON->OFF (by a
\* reading), OFF->WARMING_UP, ON->COOLING_DOWN (by a request), WARMING_UP->
\* ON/OFF by a reading at 30 s or later, COOLING_DOWN->ON/OFF by a reading at
\* 90 s or later; and a non-null reading observed once the phase duration has
\* elapsed always leaves the transitional state.
C17_AllowedStateChanges ==
    LET a == prev.state
        b == state.state
    IN  /\ a # b =>
               \/ IsObserve /\ a = UNKNOWN /\ b \in {ON, OFF}
               \/ IsObserve /\ a = OFF /\ b = ON
               \/ IsObserve /\ a = ON /\ b = OFF
               \/ IsRequest /\ a = OFF /\ b = WARMING_UP
               \/ IsRequest /\ a = ON /\ b = COOLING_DOWN
               \/ IsObserve /\ a = WARMING_UP /\ b \in {ON, OFF}
                      /\ ElapsedMs(prev, now) >= 30 * 1000
               \/ IsObserve /\ a = COOLING_DOWN /\ b \in {ON, OFF}
                      /\ ElapsedMs(prev, now) >= 90 * 1000
        /\ (IsObserve /\ ~IsNone(call.arg) /\ a = WARMING_UP
               /\ ElapsedMs(prev, now) >= 30 * 1000) => b \in {ON, OFF}
        /\ (IsObserve /\ ~IsNone(call.arg) /\ a = COOLING_DOWN
               /\ ElapsedMs(prev, now) >= 90 * 1000) => b \in {ON, OFF}

\* A cool-down was resolved to ON by a reading true after 90 s.
C17_Witness ==
    /\ IsObserve
    /\ call.arg = Some(TRUE)
    /\ prev.state = COOLING_DOWN
    /\ ElapsedMs(prev, now) >= 90 * 1000
    /\ state.state = ON

(***************************************************************************)
(* Properties of the HTTP handlers (specification HttpSpec).               *)
(***************************************************************************)
ViaGet == call.route = GET_POWER_STATE
ViaPost == call.route = POST_POWER

\* C6: POST /api/power {on: true} handled in state OFF yields WARMING_UP with
\* remainingSeconds = 30 at that instant; a GET /api/power-state whose device
\* read returns on 30 s or more into the warm-up yields ON; and no step takes
\* a warm-up to ON before 30 s have elapsed.
C6_PowerOnEndToEnd ==
    /\ (IsRequest /\ ViaPost /\ call.arg = Some(TRUE) /\ prev.state = OFF) =>
           /\ state.state = WARMING_UP
           /\ calculateRemainingSeconds(state, now) = 30
    /\ (IsObserve /\ ViaGet /\ call.result = "Right" /\ call.arg = Some(TRUE)
           /\ prev.state = WARMING_UP /\ ElapsedMs(prev, now) >= 30 * 1000) =>
           state.state = ON
    /\ (prev.state = WARMING_UP /\ ElapsedMs(prev, now) < 30 * 1000) =>
           state.state # ON

\* A GET that read on, 30 s or more into a warm-up started by a POST, gave ON.
C6_Witness ==
    /\ IsObserve /\ ViaGet
    /\ call.result = "Right" /\ call.arg = Some(TRUE)
    /\ prev.state = WARMING_UP
    /\ state.state = ON
    /\ response.data = Some(enrichWithRemainingSeconds(
                                [powerOn |-> Some(TRUE), state |-> ON,
                                 transitionStartTime |-> None], now))

\* C8: a null reading changes nothing, and a GET /api/power-state whose
\* device read fails or returns no value passes a null reading, leaves the
\* snapshot as it was and answers 200 with error = none and that snapshot.
C8_NoneReadingIsNoInformation ==
    /\ (IsObserve /\ IsNone(call.arg)) => state = prev
    /\ (IsObserve /\ ViaGet /\ (call.result = "Left" \/ IsNone(call.arg))) =>
           /\ IsNone(call.arg)
           /\ state = prev
           /\ response = [route |-> GET_POWER_STATE, status |-> 200,
                          error |-> None,
                          data |-> Some(enrichWithRemainingSeconds(prev, now))]

\* A device read failed while the snapshot was ON, and it stayed ON.
C8_Witness ==
    /\ IsObserve /\ ViaGet
    /\ call.result = "Left"
    /\ prev.state = ON
    /\ state = prev
    /\ response.status = 200

\* C9: every call of the holder reads the snapshot left by the step before
\* it and stores the result of its transition function on that snapshot;
\* no other step of a handler, and no passage of time, changes the snapshot.
C9_MutationsAppliedOneAtATime ==
    /\ IsObserve =>
           /\ call.base = prev
           /\ state = updateFromProjector(prev, call.arg, now)
    /\ IsRequest =>
           /\ call.base = prev
           /\ state = initiateTransition(prev, Unwrap(call.arg), now)
    /\ (~IsObserve /\ ~IsRequest) => state = prev

\* A GET resumed while a POST was suspended on setPower and observed the
\* snapshot that POST's request had left.
C9_Witness ==
    /\ IsObserve /\ ViaGet
    /\ call.arg = Some(TRUE)
    /\ prev.state = COOLING_DOWN
    /\ ElapsedMs(prev, now) = 0
    /\ state.state = COOLING_DOWN
    /\ state.powerOn = Some(TRUE)
    /\ \E h \in Requests :
           reqs[h] = [pc |-> "post_await_setPower", on |-> Some(FALSE)]

\* A handler is suspended on setPower(on).
AwaitingSetPower(on) ==
    \E h \in Requests : reqs[h] = [pc |-> "post_await_setPower", on |-> on]

\* C18: POST /api/power applies the request to the snapshot and then issues
\* setPower, also when the request changed nothing; a failed setPower is
\* answered 500 with an error and no data and leaves the snapshot as it is;
\* a transitional state is left only by a reading observed after the phase
\* duration.
C18_PostPowerDoesNotRollBack ==
    /\ (IsRequest /\ ViaPost) =>
           /\ state = initiateTransition(prev, Unwrap(call.arg), now)
           /\ AwaitingSetPower(call.arg)
    /\ (call.op = "respond" /\ ViaPost) => state = prev
    /\ (call.op = "respond" /\ ViaPost /\ call.result = "Left") =>
           /\ response.status = 500
           /\ ~IsNone(response.error)
           /\ IsNone(response.data)
    /\ (Transitional(prev) /\ state # prev) =>
           /\ IsObserve
           /\ prev.state = WARMING_UP =>
                  (state.state = WARMING_UP \/ ElapsedMs(prev, now) >= 30 * 1000)
           /\ prev.state = COOLING_DOWN =>
                  (state.state = COOLING_DOWN \/ ElapsedMs(prev, now) >= 90 * 1000)

\* setPower failed after a request that had started a cool-down: the answer
\* is 500 and the snapshot is still COOLING_DOWN.
C18_Witness ==
    /\ call.op = "respond" /\ ViaPost
    /\ call.result = "Left"
    /\ response.status = 500
    /\ state.state = COOLING_DOWN
    /\ state.powerOn = Some(FALSE)

\* A request that changed nothing (state UNKNOWN) was followed by setPower.
C18_NoOpStillSends ==
    /\ IsRequest /\ ViaPost
    /\ prev.state = UNKNOWN
    /\ state = prev
    /\ AwaitingSetPower(call.arg)

(***************************************************************************)
(* Properties of the power poller (specification PollSpec).                *)
(***************************************************************************)
\* Every attached subscriber last received value v.
AllReceived(v) == \A s \in Subscribers : subs[s].attached => subs[s].last = Some(v)

\* C10: the power poller starts a fetch the moment it is connected (tick 0)
\* and its timer stays armed on the fixed 2 s grid from then on, whatever the
\* fetches return; a failed fetch is published as null to all subscribers and
\* leaves the timer running, and a successful one publishes its snapshot.
C10_PowerPollerSurvivesFailure ==
    /\ power.connected => ~power.halted
    /\ TimerRunning =>
           /\ power.issued >= 1
           /\ power.nextTick = power.t0 + power.issued * 2000
           /\ clock - power.nextTick < PollQuantum
    /\ event.kind = "connect" =>
           /\ power.t0 = clock
           /\ power.issued = 1
           /\ power.active = 1
           /\ 1 \in fetches
    /\ event.kind # "error"
    /\ (event.kind = "publish" /\ event.tag = "Left") =>
           /\ power.cache = Some(None)
           /\ AllReceived(None)
           /\ pubLog[Len(pubLog)] = None
           /\ TimerRunning
    /\ (event.kind = "publish" /\ event.tag = "Right") =>
           /\ power.cache # Some(None)
           /\ Unwrap(Unwrap(power.cache)) \in PolledSnapshots
           /\ AllReceived(Unwrap(power.cache))

\* The fetch of one tick failed and null was published; the fetch of a later
\* tick succeeded and its snapshot was published to a subscriber.
C10_Witness ==
    /\ event.kind = "publish" /\ event.tag = "Right"
    /\ event.id >= 2
    /\ Len(pubLog) >= 2
    /\ pubLog[Len(pubLog) - 1] = None
    /\ pubLog[Len(pubLog)] = Some([powerOn |-> Some(TRUE), state |-> ON])
    /\ \E s \in Subscribers : subs[s].attached /\ subs[s].last = power.cache

(***************************************************************************)
(* Properties of the derived signal and the conditional pollers            *)
(* (specification DashSpec).                                               *)
(***************************************************************************)
\* A published power value that is a snapshot of the projector on and settled.
IsOnSnapshot(value) ==
    /\ value # None
    /\ value[1].powerOn = Some(TRUE)
    /\ value[1].state = ON

\* C11: once isProjectorOn$ is subscribed, its value is "the latest value
\* published by power$ is a snapshot with powerOn = true and state = ON"; it
\* emits only when that boolean differs from the one it emitted last, and so
\* it is false while the latest snapshot is UNKNOWN, OFF, WARMING_UP or
\* COOLING_DOWN.
C11_SignalIsDeduplicatedOnState ==
    /\ signal.connected =>
           /\ power.connected
           /\ (power.cache = None) = (signal.cache = None)
           /\ power.cache # None => signal.cache = Some(IsOnSnapshot(power.cache[1]))
    /\ event.sig # None =>
           /\ was.signal.cache # event.sig
           /\ signal.cache = event.sig
    /\ signal.cache # was.signal.cache => event.sig = signal.cache
    /\ (/\ signal.connected
        /\ power.cache # None
        /\ power.cache[1] # None
        /\ power.cache[1][1].state \in {UNKNOWN, OFF, WARMING_UP, COOLING_DOWN})
           => signal.cache = Some(FALSE)

\* power$ published a second ON snapshot in a row while the signal was already
\* true: the signal did not emit again.
C11_Witness ==
    /\ event.kind = "publish"
    /\ event.sig = None
    /\ was.signal.cache = Some(TRUE)
    /\ signal.cache = Some(TRUE)
    /\ Len(pubLog) >= 2
    /\ IsOnSnapshot(pubLog[Len(pubLog)])
    /\ IsOnSnapshot(pubLog[Len(pubLog) - 1])

\* The conditional poller the last step was about.
Polled == cond[event.poller]

\* Every metric read from a poller's buffered value is none: the value is
\* null, or it is the picture settings with all three fields null.
NoMetric(buffered) ==
    \/ buffered = Some(None)
    \/ buffered = Some(Some([brightness |-> None, contrast |-> None,
                             sharpness |-> None]))

\* A poller's buffered value is what its device read resolved with.
RealValue(p, buffered) ==
    buffered = Some(Some(IF p = TEMPERATURE THEN TemperatureReading
                         ELSE PictureReading))

\* The interval timer of a running conditional poller is armed on the 2 s
\* grid that started when the signal turned true, and is never overdue.
CondTimerArmed(c) ==
    /\ c.issued > c.base
    /\ c.nextTick = c.t0 + (c.issued - c.base) * POLL_INTERVAL
    /\ clock - c.nextTick < PollQuantum

\* C12: a conditional poller never ends with an error.  While the signal is
\* on its timer stays armed on the 2 s grid whatever its fetches return; the
\* reply to a failed fetch is published as no value (null; for the picture
\* settings, all three fields null) to all subscribers, and the reply to a
\* successful one as the reading.
C12_CondPollerSurvivesFailure ==
    /\ \A p \in CondPollers :
           /\ ~cond[p].halted
           /\ cond[p].running => CondTimerArmed(cond[p])
    /\ event.kind # "cond_error"
    /\ (event.kind = "cond_publish" /\ event.tag = "reject") =>
           /\ NoMetric(Polled.cache)
           /\ ~RealValue(event.poller, Polled.cache)
           /\ Polled.running
           /\ \A s \in Subscribers :
                  condSubs[event.poller][s].attached
                      => condSubs[event.poller][s].last = Polled.cache
    /\ (event.kind = "cond_publish" /\ event.tag = "resolve") =>
           /\ RealValue(event.poller, Polled.cache)
           /\ Polled.running

\* The fetch of one tick of pictureSettings$ failed and the three nulls were
\* buffered; the fetch of a later tick of the same on-phase succeeded and the
\* reading replaced them.
C12_Witness ==
    /\ event.kind = "cond_publish" /\ event.tag = "resolve"
    /\ event.poller = PICTURE_SETTINGS
    /\ was.cond[PICTURE_SETTINGS].cache # Some(None)
    /\ NoMetric(was.cond[PICTURE_SETTINGS].cache)
    /\ event.id >= Polled.base + 2
    /\ RealValue(PICTURE_SETTINGS, Polled.cache)
    /\ \E s \in Subscribers : condSubs[PICTURE_SETTINGS][s].last = Polled.cache

\* The fetch of a periodic tick of temperature$ failed and null was published.
C12_TemperatureFailurePublished ==
    /\ event.kind = "cond_publish" /\ event.tag = "reject"
    /\ event.poller = TEMPERATURE
    /\ event.id >= Polled.base + 2
    /\ Polled.cache = Some(None)

\* C13: when isProjectorOn$ emits false, the buffered value of every
\* subscribed conditional poller becomes null at once and its subscribers
\* receive null; while the signal is false the buffered value stays null
\* (a poller not subscribed yet has buffered nothing).
C13_SwitchOffClearsCache ==
    /\ event.sig = Some(FALSE) =>
           \A p \in CondPollers :
               Listening(was.cond[p]) =>
                   /\ cond[p].cache = Some(None)
                   /\ ~cond[p].running
                   /\ \A s \in Subscribers :
                          condSubs[p][s].attached => condSubs[p][s].last = Some(None)
    /\ signal.cache = Some(FALSE) =>
           \A p \in CondPollers :
               /\ cond[p].connected => cond[p].cache = Some(None)
               /\ ~cond[p].connected => cond[p].cache = None
               /\ \A s \in Subscribers :
                      condSubs[p][s].attached => condSubs[p][s].last = Some(None)

\* The signal was true and a poller had buffered a reading; the signal
\* emitted false and the poller's buffer and its subscriber now hold null.
C13_Witness ==
    /\ event.sig = Some(FALSE)
    /\ was.signal.cache = Some(TRUE)
    /\ \E p \in CondPollers :
           /\ RealValue(p, was.cond[p].cache)
           /\ cond[p].cache = Some(None)
           /\ \E s \in Subscribers :
                  condSubs[p][s].attached /\ condSubs[p][s].last = Some(None)

\* A reply arrived while the signal was false and the buffer stayed null.
C13_StaysNoneOnLateReply ==
    /\ event.kind = "cond_discard" /\ event.tag = "resolve"
    /\ signal.cache = Some(FALSE)
    /\ Polled.cache = Some(None)

\* The last step started a fetch of poller p.
Fetched(p) == cond[p].issued # was.cond[p].issued

\* C14: a conditional poller starts no fetch and runs no timer unless the
\* latest value of isProjectorOn$ is true.  When the signal turns true (or the
\* poller subscribes while it is true) the poller starts one fetch in that
\* very step and arms its timer; from then on it starts one fetch per 2 s
\* period, neither early nor late; when the signal turns false the timer is
\* stopped and no fetch is started.
C14_CondPollersAreGated ==
    /\ signal.cache # Some(TRUE) =>
           /\ \A p \in CondPollers : ~cond[p].running /\ ~Fetched(p)
           /\ event.kind # "cond_tick"
    /\ \A p \in CondPollers :
           /\ Fetched(p) =>
                  /\ cond[p].issued = was.cond[p].issued + 1
                  /\ cond[p].issued \in condFetches[p]
                  /\ cond[p].active = cond[p].issued
                  /\ \/ event.sig = Some(TRUE)
                     \/ event.kind = "cond_connect" /\ event.poller = p
                     \/ event.kind = "cond_tick" /\ event.poller = p
           /\ (event.sig = Some(TRUE) /\ cond[p].connected) =>
                  /\ Fetched(p)
                  /\ cond[p].running
                  /\ cond[p].t0 = clock
                  /\ cond[p].base = was.cond[p].issued
           /\ (signal.cache = Some(TRUE) /\ cond[p].connected) =>
                  /\ cond[p].running
                  /\ CondTimerArmed(cond[p])
                  /\ cond[p].nextTick - POLL_INTERVAL <= clock
           /\ (event.kind = "cond_tick" /\ event.poller = p) =>
                  /\ Fetched(p)
                  /\ clock >= was.cond[p].nextTick
    /\ event.sig = Some(FALSE) =>
           \A p \in CondPollers : ~cond[p].running /\ cond[p].active = 0

\* power$ was started by the poller's own subscription and the signal turned
\* true only later: the poller fetched at that moment, and its timer fired one
\* period after it for the second fetch of the on-phase.
C14_Witness ==
    /\ event.kind = "cond_tick"
    /\ \A s \in Subscribers : ~subs[s].attached
    /\ power.t0 < Polled.t0
    /\ event.id = Polled.base + 2
    /\ clock = Polled.t0 + POLL_INTERVAL

\* The signal turned false while a poller's timer was running: it stopped.
C14_StoppedOnFalse ==
    /\ event.sig = Some(FALSE)
    /\ \E p \in CondPollers : was.cond[p].running /\ ~cond[p].running

C15_PowerSharedWithSignal ==
    /\ event.kind = "subscribe"
    /\ signal.connected
    /\ power.cache # None
    /\ subs[event.id].last = power.cache

\* C19: a poller publishes the reply to the fetch it started last and no
\* other.  The reply to a fetch that a later tick has superseded, or that was
\* started before the signal last turned false, changes nothing: the buffers
\* of power$, of the signal and of the pollers stay as they were.  So a reply
\* that is published arrived within one period of its fetch (plus the time the
\* timer may be late), and a poller whose every reply takes longer publishes
\* nothing.
C19_OnlyLatestReplyIsPublished ==
    /\ event.kind = "publish" =>
           /\ event.id = was.power.issued
           /\ clock - (power.t0 + (event.id - 1) * POLL_INTERVAL)
                  < POLL_INTERVAL + PollQuantum
    /\ event.kind = "discard" =>
           /\ event.id < power.issued
           /\ power = was.power
           /\ signal = was.signal
           /\ cond = was.cond
    /\ event.kind = "cond_publish" =>
           /\ event.id = was.cond[event.poller].issued
           /\ event.id > Polled.base
           /\ signal.cache = Some(TRUE)
           /\ clock - (Polled.t0 + (event.id - Polled.base - 1) * POLL_INTERVAL)
                  < POLL_INTERVAL + PollQuantum
    /\ event.kind = "cond_discard" =>
           /\ event.id < Polled.issued \/ signal.cache = Some(FALSE)
           /\ power = was.power
           /\ signal = was.signal
           /\ cond = was.cond
    /\ power.cache # was.power.cache => event.kind = "publish"
    /\ \A p \in CondPollers :
           cond[p].cache # was.cond[p].cache =>
               \/ event.kind = "cond_publish" /\ event.poller = p
               \/ event.sig = Some(FALSE)
               \/ event.kind = "cond_connect" /\ event.poller = p
                      /\ signal.cache = Some(FALSE)

\* A successful reply to a fetch of a conditional poller arrived after the
\* poller's next tick had fired, in the same on-phase: it was dropped and the
\* buffer kept the value it had.
C19_Witness ==
    /\ event.kind = "cond_discard" /\ event.tag = "resolve"
    /\ Polled.running
    /\ event.id > Polled.base
    /\ event.id < Polled.issued
    /\ Polled.cache = was.cond[event.poller].cache
    /\ ~RealValue(event.poller, Polled.cache)

\* A successful reply arrived after the signal had turned false, when the
\* fetch was still the latest one: the null set on switch-off stayed.
C19_LateAfterSwitchOff ==
    /\ event.kind = "cond_discard" /\ event.tag = "resolve"
    /\ event.id = Polled.issued
    /\ signal.cache = Some(FALSE)
    /\ Polled.cache = Some(None)

\* Three fetches of power$ were started and every reply so far came after the
\* next tick: nothing has been published.
C19_SlowLinkPublishesNothing ==
    /\ event.kind = "discard"
    /\ power.issued >= 3
    /\ power.cache = None
    /\ pubLog = <<>>

\* C20: when a fetch of power$ fails while the signal is true, power$
\* publishes null and in the same step the signal emits false, every
\* subscribed conditional poller stops its timer, drops its fetch and buffers
\* null, whatever snapshot power$ had published before.  When power$ next publishes
\* a snapshot with powerOn = true and state = ON, the signal emits true and
\* every subscribed conditional poller starts a fetch in that step and arms
\* its timer.
C20_OneFailedTickSwitchesOff ==
    /\ (event.kind = "publish" /\ event.tag = "Left"
            /\ was.signal.cache = Some(TRUE)) =>
           /\ power.cache = Some(None)
           /\ event.sig = Some(FALSE)
           /\ signal.cache = Some(FALSE)
           /\ \A p \in CondPollers :
                  cond[p].connected =>
                      /\ ~cond[p].running
                      /\ cond[p].active = 0
                      /\ cond[p].cache = Some(None)
                      /\ ~Fetched(p)
    /\ (event.kind = "publish" /\ IsOnSnapshot(power.cache[1])
            /\ was.signal.cache = Some(FALSE)) =>
           /\ event.sig = Some(TRUE)
           /\ signal.cache = Some(TRUE)
           /\ \A p \in CondPollers :
                  cond[p].connected =>
                      /\ cond[p].running
                      /\ cond[p].issued = was.cond[p].issued + 1
                      /\ cond[p].active = cond[p].issued
                      /\ cond[p].issued \in condFetches[p]
                      /\ cond[p].t0 = clock
                      /\ cond[p].nextTick = clock + POLL_INTERVAL

\* power$ published ON, then null for one failed tick, then ON again; a
\* conditional poller that had been polling during the first ON and was reset
\* to null by the failure has just started a fetch again.
C20_Witness ==
    /\ event.kind = "publish" /\ event.sig = Some(TRUE)
    /\ Len(pubLog) >= 3
    /\ IsOnSnapshot(pubLog[Len(pubLog) - 2])
    /\ pubLog[Len(pubLog) - 1] = None
    /\ IsOnSnapshot(pubLog[Len(pubLog)])
    /\ \E p \in CondPollers :
           /\ was.cond[p].issued > 0
           /\ was.cond[p].cache = Some(None)
           /\ ~was.cond[p].running
           /\ cond[p].running
           /\ cond[p].issued \in condFetches[p]

\* The failed tick itself: the last published snapshot was ON, a poller held
\* a reading, and the null from power$ reset it.
C20_FailureResets ==
    /\ event.kind = "publish" /\ event.tag = "Left"
    /\ was.power.cache # None
    /\ IsOnSnapshot(was.power.cache[1])
    /\ \E p \in CondPollers :
           RealValue(p, was.cond[p].cache) /\ cond[p].cache = Some(None)

====
